---- MODULE Spec2Model ----
(***************************************************************************)
(* A model of datload.py: the archive listing parser (scanroms), the       *)
(* catalog walker (pulldata) and the checksum collector (checkroms).       *)
(*                                                                         *)
(* Text is modelled as sequences of one-character strings, so that         *)
(* str.split, str.strip, str.startswith and slicing by offset are computed *)
(* as Python computes them.  A Python dict is a function whose DOMAIN is   *)
(* the set of its keys.  An archive path is its position in the batch.     *)
(***************************************************************************)
EXTENDS Naturals, Sequences, FiniteSets, TLC

VARIABLES
    \* scanroms
    spc,        \* position: "next" | "lines" | "done" | "exit" | "crash"
    ai,         \* index in allfiles of the archive of the current iteration
    lines,      \* listed.splitlines() of the current archive
    li,         \* number of lines of `lines` already read
    started, last, headers, offsets, fileinfo, romfiles,
    slog        \* what scanroms printed

scanVars == <<spc, ai, lines, li, started, last, headers, offsets, fileinfo,
              romfiles, slog>>

VARIABLES
    \* pulldata
    ppc,        \* position: "next" | "entries" | "done" | "exit"
    di,         \* index in datfiles of the catalog of the current iteration
    xml,        \* the parsed document of the current catalog
    entries,    \* the elements found by findall
    ei,         \* number of entries already walked
    games, atts, childs, datinfo, dats,
    plog        \* what pulldata printed

pullVars == <<ppc, di, xml, entries, ei, games, atts, childs, datinfo, dats,
              plog>>

VARIABLES
    \* checkroms
    cpc,        \* position: "next" | "extract" | "walk" | "done"
    ci,         \* index in roms of the archive of the current iteration
    temp,       \* the scratch directory of the current archive, 0 when none
    dirs,       \* the scratch directories that exist
    made,       \* the os.makedirs calls so far: [dir, romname]
    files,      \* the glob of the extracted tree
    fi,         \* number of files already walked
    romcheck, checks,
    raised,     \* the archives on which a collaborator raised
    clog        \* what checkroms printed

checkVars == <<cpc, ci, temp, dirs, made, files, fi, romcheck, checks, raised,
               clog>>

vars == <<scanVars, pullVars, checkVars>>

------------------------------------------------------------------------------
(* Bounds *)

NumArchives == 2
MaxRows == 2
NumDats == 1
MaxEntries == 2
NumRoms == 2
MaxFiles == 2

------------------------------------------------------------------------------
(* Python dicts and strings *)

EmptyDict == [k \in {} |-> 0]

Put(d, k, v) == [x \in (DOMAIN d) \cup {k} |-> IF x = k THEN v ELSE d[x]]

Spaces(n) == [i \in 1..n |-> " "]

Dashes(n) == [i \in 1..n |-> "-"]

Min(a, b) == IF a < b THEN a ELSE b

\* s[begin:end] for 0 <= begin, 0 <= end
Slice(s, begin, end) ==
    IF begin >= Min(end, Len(s)) THEN <<>>
    ELSE SubSeq(s, begin + 1, Min(end, Len(s)))

RECURSIVE SplitFrom(_, _, _, _)
SplitFrom(s, i, cur, acc) ==
    IF i > Len(s)
    THEN IF cur = <<>> THEN acc ELSE Append(acc, cur)
    ELSE IF s[i] = " "
         THEN SplitFrom(s, i + 1, <<>>, IF cur = <<>> THEN acc ELSE Append(acc, cur))
         ELSE SplitFrom(s, i + 1, Append(cur, s[i]), acc)

\* s.split()
Split(s) == SplitFrom(s, 1, <<>>, <<>>)

RECURSIVE LStrip(_)
LStrip(s) == IF s # <<>> /\ Head(s) = " " THEN LStrip(Tail(s)) ELSE s

RECURSIVE RStrip(_)
RStrip(s) ==
    IF s # <<>> /\ s[Len(s)] = " " THEN RStrip(SubSeq(s, 1, Len(s) - 1)) ELSE s

\* s.strip()
Strip(s) == RStrip(LStrip(s))

\* right-justify / left-justify a cell in a column of the given width
RJust(s, w) == Spaces(w - Len(s)) \o s

LJust(s, w) == s \o Spaces(w - Len(s))

------------------------------------------------------------------------------
(* The state before scanroms, pulldata or checkroms is called *)

InitScan ==
    /\ spc = "next"
    /\ ai = 0
    /\ lines = <<>>
    /\ li = 0
    /\ started = FALSE
    /\ last = <<>>
    /\ headers = <<>>
    /\ offsets = <<0>>
    /\ fileinfo = [path |-> 0, files |-> EmptyDict]
    /\ romfiles = EmptyDict
    /\ slog = <<>>

InitPull ==
    /\ ppc = "next"
    /\ di = 0
    /\ xml = <<>>
    /\ entries = <<>>
    /\ ei = 0
    /\ games = EmptyDict
    /\ atts = <<>>
    /\ childs = <<>>
    /\ datinfo = EmptyDict
    /\ dats = EmptyDict
    /\ plog = <<>>

InitCheck ==
    /\ cpc = "next"
    /\ ci = 0
    /\ temp = 0
    /\ dirs = {}
    /\ made = <<>>
    /\ files = <<>>
    /\ fi = 0
    /\ romcheck = [path |-> 0, files |-> EmptyDict]
    /\ checks = EmptyDict
    /\ raised = {}
    /\ clog = <<>>

Init == InitScan /\ InitPull /\ InitCheck

------------------------------------------------------------------------------
(* scanroms: the words of the listing *)

Date == <<"D", "a", "t", "e">>
Time == <<"T", "i", "m", "e">>
Attr == <<"A", "t", "t", "r">>
Size == <<"S", "i", "z", "e">>
Compressed == <<"C", "o", "m", "p", "r", "e", "s", "s", "e", "d">>
Name == <<"N", "a", "m", "e">>

validheaders == <<Date, Time, Attr, Size, Compressed, Name>>

InSeq(x, s) == \E i \in 1..Len(s) : s[i] = x

\* the loop of lines 186-190 over the tokens of a line
Dividers(parts) == \A i \in 1..Len(parts) : parts[i][1] = "-"

\* the two checks of lines 195-201, either of which ends in exit()
HeadersValid(hs) ==
    /\ Len(hs) = Len(validheaders)
    /\ \A i \in 1..Len(validheaders) : InSeq(validheaders[i], hs)

RECURSIVE AccumulateOffsets(_, _)
AccumulateOffsets(offs, ps) ==
    IF ps = <<>> THEN offs
    ELSE AccumulateOffsets(Append(offs, offs[Len(offs)] + Len(Head(ps)) + 1),
                           Tail(ps))

DeriveOffsetsNoFinalIncrement(offs, parts, hs) ==
    AccumulateOffsets(Append(Append(offs, 11), 20),
                      Slice(parts, 1, Len(hs) - 2))

DeriveOffsetsFromHeaderTokens(offs, parts, hs) ==
    LET acc == AccumulateOffsets(Append(Append(offs, 11), 20),
                                 Slice(hs, 2, Len(hs) - 2))
    IN  [acc EXCEPT ![Len(acc)] = acc[Len(acc)] + 1]

\* lines 202-208: parts are the tokens of the divider line
DeriveOffsets(offs, parts, hs) ==
    LET acc == AccumulateOffsets(Append(Append(offs, 11), 20),
                                 Slice(parts, 1, Len(hs) - 2))
    IN  [acc EXCEPT ![Len(acc)] = acc[Len(acc)] + 1]

\* lines 216-222: the substring of column index (1-based here)
Subline(line, offs, index) ==
    LET begin == offs[index]
        end == IF index < Len(offs) THEN offs[index + 1] ELSE Len(line)
        sub == Slice(line, begin, end)
    IN  IF index < Len(offs) THEN Strip(sub) ELSE sub

\* lines 214-225: the info dict of one row
ParseRow(line, offs, hs) ==
    LET kept == {i \in 1..Len(offs) : Strip(Subline(line, offs, i)) # <<>>}
        lastOf(h) == CHOOSE i \in kept :
                        /\ hs[i] = h
                        /\ \A j \in kept : hs[j] = h => j <= i
    IN  [h \in {hs[i] : i \in kept} |-> Subline(line, offs, lastOf(h))]

------------------------------------------------------------------------------
(* scanroms: the listings the archive-listing collaborator may return *)

HeaderLine ==
    Spaces(3) \o Date \o Spaces(6) \o Time \o Spaces(4) \o Attr \o Spaces(9)
        \o Size \o Spaces(3) \o Compressed \o Spaces(2) \o Name

DividerLine ==
    Dashes(19) \o Spaces(1) \o Dashes(5) \o Spaces(1) \o Dashes(12)
        \o Spaces(1) \o Dashes(12) \o Spaces(2) \o Dashes(24)

DateText == <<"2", "0", "1", "5", "-", "0", "1", "-", "0", "2">>
TimeText == <<"1", "2", ":", "0", "0", ":", "0", "0">>
FileAttr == <<".", ".", ".", ".", "A">>
DirAttr == <<"D", ".", ".", ".", ".">>

\* a data row, its cells aligned to the columns of HeaderLine and DividerLine
RowLine(r) ==
    LJust(r.date, 10) \o Spaces(1) \o LJust(r.time, 8) \o Spaces(1)
        \o LJust(r.attr, 5) \o Spaces(1) \o RJust(r.size, 12) \o Spaces(1)
        \o RJust(r.comp, 12) \o Spaces(2) \o r.name

FullRow ==
    [date |-> DateText, time |-> TimeText, attr |-> FileAttr,
     size |-> <<"1", "0", "0">>, comp |-> <<"6", "4">>,
     name |-> <<"a", ".", "b">>]

\* a directory: no Size, no Compressed; the name has a space in it
DirRow ==
    [date |-> DateText, time |-> TimeText, attr |-> DirAttr,
     size |-> <<>>, comp |-> <<>>, name |-> <<"a", " ", "b">>]

\* only the Name cell is filled, and the name starts with a dash
BareDashRow ==
    [date |-> <<>>, time |-> <<>>, attr |-> <<>>, size |-> <<>>,
     comp |-> <<>>, name |-> <<"-", "a">>]

\* a row that ends before the Name column
ShortLine == DateText \o Spaces(1) \o TimeText \o Spaces(1) \o DirAttr

RowLines == {RowLine(FullRow), RowLine(DirRow), RowLine(BareDashRow), ShortLine}

RowSeqs == UNION {[1..n -> RowLines] : n \in 0..MaxRows}

\* what 7z prints before the table and after it
Prelude ==
    << <<"-", "-">>,
       <<"P", "a", "t", "h", " ", "=", " ", "a">>,
       <<>> >>

Trailer == << Spaces(26) \o RJust(<<"1", "0", "0">>, 12) \o Spaces(15)
                \o <<"2", " ", "f", "i", "l", "e", "s">> >>

TableOf(header, divider, rows) == <<header, divider>> \o rows \o <<divider>>

\* header tokens {Date, Time, Attr, Name}, the divider aligned to them
FourColumnListing ==
    TableOf(Spaces(3) \o Date \o Spaces(6) \o Time \o Spaces(4) \o Attr
                \o Spaces(2) \o Name,
            Dashes(19) \o Spaces(1) \o Dashes(5) \o Spaces(2) \o Dashes(24),
            << DateText \o Spaces(1) \o TimeText \o Spaces(1) \o FileAttr
                \o Spaces(2) \o <<"a">> >>)

\* header tokens {Date, Time, Attr, Size, Name}, one dash group per column
FiveColumnListing ==
    TableOf(Date \o Spaces(7) \o Time \o Spaces(5) \o Attr \o Spaces(10)
                \o Size \o Spaces(2) \o Name,
            Dashes(10) \o Spaces(1) \o Dashes(8) \o Spaces(1) \o Dashes(5)
                \o Spaces(1) \o Dashes(12) \o Spaces(2) \o Dashes(24),
            << DateText \o Spaces(1) \o TimeText \o Spaces(1) \o FileAttr
                \o Spaces(1) \o RJust(<<"1", "0", "0">>, 12) \o Spaces(2)
                \o <<"a">> >>)

\* the six names, but a divider whose dash groups have other widths
NarrowDividerListing ==
    TableOf(HeaderLine,
            Dashes(19) \o Spaces(1) \o Dashes(4) \o Spaces(1) \o Dashes(10)
                \o Spaces(1) \o Dashes(12) \o Spaces(2) \o Dashes(24),
            << RowLine(FullRow) >>)

\* listings with the six-column header and its divider
ValidListings ==
    {TableOf(HeaderLine, DividerLine, rows) : rows \in RowSeqs}
        \cup {Prelude \o TableOf(HeaderLine, DividerLine,
                                 <<RowLine(FullRow), RowLine(DirRow)>>)
                      \o Trailer}

Listings ==
    ValidListings
        \cup {FourColumnListing, FiveColumnListing, NarrowDividerListing}

------------------------------------------------------------------------------
(* scanroms *)

allfiles == 1..NumArchives

BadRomFile(path) == [msg |-> "Bad rom file", path |-> path]

HeaderMismatch(path) == [msg |-> "Headers do not match", path |-> path]

line == lines[li + 1]

parts == Split(line)

\* lines 167-174: list_archive raises, the archive is skipped
ListArchiveRaises ==
    /\ spc = "next"
    /\ ai < NumArchives
    /\ ai' = ai + 1
    /\ slog' = Append(slog, BadRomFile(ai + 1))
    /\ UNCHANGED <<spc, lines, li, started, last, headers, offsets, fileinfo,
                   romfiles>>
    /\ UNCHANGED <<pullVars, checkVars>>

\* lines 167-182: list_archive returns a listing; the locals are reset
ListArchiveFrom(S) ==
    /\ spc = "next"
    /\ ai < NumArchives
    /\ \E listed \in S :
        /\ ai' = ai + 1
        /\ lines' = listed
        /\ li' = 0
        /\ started' = FALSE
        /\ last' = <<>>
        /\ headers' = <<>>
        /\ offsets' = <<0>>
        /\ fileinfo' = [path |-> ai + 1, files |-> EmptyDict]
        /\ spc' = "lines"
    /\ UNCHANGED <<romfiles, slog>>
    /\ UNCHANGED <<pullVars, checkVars>>

ListArchive == ListArchiveFrom(Listings)

ListArchiveValid == ListArchiveFrom(ValidListings)

SeekLastKeepNonDivider(ps, prev) == IF Dividers(ps) THEN prev ELSE ps

\* line 230: what `last` becomes on a line that does not establish headers
SeekLast(ps, prev) == ps

\* lines 191-192: the test that tries `last` as the header line
EstablishGuard(ps, prev) == Len(ps) > 4 /\ Dividers(ps)

\* lines 183-191, 211, 229-230: a line read while seeking the header
SeekLine ==
    /\ spc = "lines" /\ li < Len(lines)
    /\ ~started
    /\ ~EstablishGuard(parts, last)
    /\ last' = SeekLast(parts, last)
    /\ li' = li + 1
    /\ UNCHANGED <<spc, ai, lines, started, headers, offsets, fileinfo,
                   romfiles, slog>>
    /\ UNCHANGED <<pullVars, checkVars>>

\* lines 191-210: a divider line establishes `last` as the headers
EstablishHeaders ==
    /\ spc = "lines" /\ li < Len(lines)
    /\ ~started
    /\ EstablishGuard(parts, last)
    /\ HeadersValid(last)
    /\ headers' = last
    /\ offsets' = DeriveOffsets(offsets, parts, last)
    /\ started' = TRUE
    /\ li' = li + 1
    /\ UNCHANGED <<spc, ai, lines, last, fileinfo, romfiles, slog>>
    /\ UNCHANGED <<pullVars, checkVars>>

\* lines 193-201: the headers do not match; exit() raises SystemExit, which
\* nothing in scanroms or main catches
HeaderMismatchExit ==
    /\ spc = "lines" /\ li < Len(lines)
    /\ ~started
    /\ EstablishGuard(parts, last)
    /\ ~HeadersValid(last)
    /\ headers' = last
    /\ slog' = Append(slog, HeaderMismatch(ai))
    /\ spc' = "exit"
    /\ UNCHANGED <<ai, lines, li, started, last, offsets, fileinfo, romfiles>>
    /\ UNCHANGED <<pullVars, checkVars>>

\* lines 226-227
StoreRow(fs, info) == Put(fs, info[Name], info)

\* lines 211-227: a data row
ReadRow ==
    /\ spc = "lines" /\ li < Len(lines)
    /\ started
    /\ ~Dividers(parts)
    /\ LET info == ParseRow(line, offsets, headers)
       IN  /\ Name \in DOMAIN info
           /\ fileinfo' = [fileinfo EXCEPT !.files = StoreRow(@, info)]
    /\ li' = li + 1
    /\ UNCHANGED <<spc, ai, lines, started, last, headers, offsets, romfiles,
                   slog>>
    /\ UNCHANGED <<pullVars, checkVars>>

\* line 226: info has no 'Name'; the KeyError leaves scanroms
ReadRowKeyError ==
    /\ spc = "lines" /\ li < Len(lines)
    /\ started
    /\ ~Dividers(parts)
    /\ Name \notin DOMAIN ParseRow(line, offsets, headers)
    /\ spc' = "crash"
    /\ UNCHANGED <<ai, lines, li, started, last, headers, offsets, fileinfo,
                   romfiles, slog>>
    /\ UNCHANGED <<pullVars, checkVars>>

\* lines 211-213, 231: a divider line ends the table; the archive is stored
EndTable ==
    /\ spc = "lines" /\ li < Len(lines)
    /\ started
    /\ Dividers(parts)
    /\ romfiles' = Put(romfiles, ai, fileinfo)
    /\ spc' = "next"
    /\ UNCHANGED <<ai, lines, li, started, last, headers, offsets, fileinfo,
                   slog>>
    /\ UNCHANGED <<pullVars, checkVars>>

\* lines 183, 231: the lines are exhausted; the archive is stored
EndOfLines ==
    /\ spc = "lines" /\ li = Len(lines)
    /\ romfiles' = Put(romfiles, ai, fileinfo)
    /\ spc' = "next"
    /\ UNCHANGED <<ai, lines, li, started, last, headers, offsets, fileinfo,
                   slog>>
    /\ UNCHANGED <<pullVars, checkVars>>

\* line 232
ReturnRomfiles ==
    /\ spc = "next"
    /\ ai = NumArchives
    /\ spc' = "done"
    /\ UNCHANGED <<ai, lines, li, started, last, headers, offsets, fileinfo,
                   romfiles, slog>>
    /\ UNCHANGED <<pullVars, checkVars>>

NextScan ==
    \/ ListArchiveRaises
    \/ ListArchive
    \/ SeekLine
    \/ EstablishHeaders
    \/ HeaderMismatchExit
    \/ ReadRow
    \/ ReadRowKeyError
    \/ EndTable
    \/ EndOfLines
    \/ ReturnRomfiles

SpecScan == Init /\ [][NextScan]_vars

\* scanroms on a batch whose listings all carry the six-column header and
\* its divider: the header never mismatches and a table always ends in a
\* divider, so those two steps are not enabled
NextScanValid ==
    \/ ListArchiveRaises
    \/ ListArchiveValid
    \/ SeekLine
    \/ EstablishHeaders
    \/ ReadRow
    \/ ReadRowKeyError
    \/ EndTable
    \/ ReturnRomfiles

SpecScanValid == Init /\ [][NextScanValid]_vars

------------------------------------------------------------------------------
(* pulldata: the documents ElementTree.parse may return *)

\* An element is [tag, attrib, text, children]; attrib is the sequence of
\* its <<key, value>> pairs in document order, text is "" when the element
\* has none.
Element(tag, attrib, text, children) ==
    [tag |-> tag, attrib |-> attrib, text |-> text, children |-> children]

Leaf(tag, attrib, text) == Element(tag, attrib, text, <<>>)

HasKey(attrib, key) == \E i \in 1..Len(attrib) : attrib[i][1] = key

\* attrib[key], for a key the element has
AttrOf(attrib, key) ==
    attrib[CHOOSE i \in 1..Len(attrib) : attrib[i][1] = key][2]

\* `not attrib.get(key)`: the key is missing or its value is empty
Falsy(attrib, key) == IF HasKey(attrib, key) THEN AttrOf(attrib, key) = "" ELSE TRUE

GameFoo ==
    Element("game", << <<"name", "Foo">>, <<"cloneof", "Bar">> >>, "",
            << Leaf("description", <<>>, "Foo (USA)"),
               Leaf("rom", << <<"name", "foo.sfc">>, <<"size", "1048576">> >>, "") >>)

\* a second game of the same name, with other attributes and children
GameFooAgain ==
    Element("game", << <<"name", "Foo">>, <<"romof", "Baz">> >>, "",
            << Leaf("rom", << <<"name", "foo2.sfc">> >>, ""),
               Leaf("video", << <<"status", "good">> >>, "") >>)

GameNoName == Element("game", << <<"cloneof", "Bar">> >>, "", <<>>)

GameEmptyName == Element("game", << <<"name", "">> >>, "", <<>>)

MachineQux ==
    Element("machine", << <<"name", "Qux">> >>, "",
            << Leaf("disk", << <<"name", "qux.chd">> >>, ""),
               Leaf("sound", <<>>, "") >>)

\* a rom without a name
GameNamelessRom ==
    Element("game", << <<"name", "Nam">> >>, "",
            << Leaf("year", <<>>, "1990"),
               Leaf("rom", << <<"size", "1">> >>, "") >>)

\* a rom that has an attribute called type
GameTypedRom ==
    Element("game", << <<"name", "Typ">> >>, "",
            << Leaf("rom", << <<"name", "t.bin">>, <<"type", "bios">> >>, "") >>)

Elements ==
    {GameFoo, GameFooAgain, GameNoName, GameEmptyName, MachineQux,
     GameNamelessRom, GameTypedRom}

Header ==
    Element("header", <<>>, "",
            << Leaf("description", <<>>, "Catalog"),
               Leaf("version", <<>>, "1") >>)

\* the root's children: the header, then up to MaxEntries elements
Documents ==
    {<<Header>> \o es : es \in UNION {[1..n -> Elements] : n \in 0..MaxEntries}}

------------------------------------------------------------------------------
(* pulldata *)

\* the values a game dict holds: a string, None, or a dict of items
Str(s) == [kind |-> "str", str |-> s, items |-> EmptyDict]

NoneValue == [kind |-> "none", str |-> "", items |-> EmptyDict]

Dict(f) == [kind |-> "dict", str |-> "", items |-> f]

nonmeta == <<"rom", "release", "device_ref", "sample", "biosset", "disk">>

\* xml.findall(tag): the root's children of that tag, in document order
FindAll(root, tag) == LET IsTag(e) == e.tag = tag IN SelectSeq(root, IsTag)

\* lines 108-110
FindEntries(root) ==
    IF Len(FindAll(root, "game")) < 1 THEN FindAll(root, "machine")
    ELSE FindAll(root, "game")

\* lines 105-107
RECURSIVE ReadHeader(_, _)
ReadHeader(info, props) ==
    IF props = <<>> THEN info
    ELSE ReadHeader(Put(info, Head(props).tag, Head(props).text), Tail(props))

\* append x to the list unless it is in it (lines 126-127, 131-132)
AppendNew(list, x) == IF InSeq(x, list) THEN list ELSE Append(list, x)

RECURSIVE CopyAttrib(_, _)
\* lines 125-128 and 145-146: d[key] = attrib[key] for every key
CopyAttrib(d, attrib) ==
    IF attrib = <<>> THEN d
    ELSE CopyAttrib(Put(d, Head(attrib)[1], Head(attrib)[2]), Tail(attrib))

RECURSIVE NoteKeys(_, _)
NoteKeys(list, attrib) ==
    IF attrib = <<>> THEN list
    ELSE NoteKeys(AppendNew(list, Head(attrib)[1]), Tail(attrib))

RECURSIVE CopyAttribAsStr(_, _)
CopyAttribAsStr(game, attrib) ==
    IF attrib = <<>> THEN game
    ELSE CopyAttribAsStr(Put(game, Head(attrib)[1], Str(Head(attrib)[2])),
                         Tail(attrib))

\* lines 134, 140, 145-146: the item of a part-like child
MakeItem(tag, subatt) == CopyAttrib(Put(EmptyDict, "type", tag), subatt)

\* lines 141-144: the item goes into the pluralized collection of its tag
StoreItem(game, tag, subname, item) ==
    LET taglist == tag \o "s"
        coll == IF taglist \in DOMAIN game THEN game[taglist].items
                ELSE EmptyDict
    IN  Put(game, taglist, Dict(Put(coll, subname, item)))

\* lines 148-153: a child that is not part-like
StoreScalar(game, child) ==
    IF child.text # "" THEN Put(game, child.tag, Str(child.text))
    ELSE IF Falsy(child.attrib, "status") THEN Put(game, child.tag, NoneValue)
    ELSE Put(game, child.tag \o "status", Str(AttrOf(child.attrib, "status")))

\* lines 129-153: the children of an entry, from the first; [game, childs,
\* ok], ok being FALSE when a part-like child without a name was met (the
\* walk stops there, on exit())
RECURSIVE WalkChildren(_, _, _)
WalkChildren(game, seen, children) ==
    IF children = <<>> THEN [game |-> game, childs |-> seen, ok |-> TRUE]
    ELSE LET child == Head(children)
             tag == child.tag
             seen1 == AppendNew(seen, tag)
         IN  IF InSeq(tag, nonmeta)
             THEN IF Falsy(child.attrib, "name")
                  THEN [game |-> game, childs |-> seen1, ok |-> FALSE]
                  ELSE WalkChildren(
                           StoreItem(game, tag, AttrOf(child.attrib, "name"),
                                     MakeItem(tag, child.attrib)),
                           seen1, Tail(children))
             ELSE WalkChildren(StoreScalar(game, child), seen1, Tail(children))

\* lines 116, 125-153: the game dict of an entry
WalkEntryOf(entry, seen) ==
    WalkChildren(CopyAttribAsStr(EmptyDict, entry.attrib), seen, entry.children)

InsertGameMerging(gs, name, game) ==
    IF name \in DOMAIN gs
    THEN Put(gs, name, [k \in DOMAIN gs[name] \cup DOMAIN game |->
                           IF k \in DOMAIN game THEN game[k] ELSE gs[name][k]])
    ELSE Put(gs, name, game)

\* line 124, the game being the fresh dict of line 116
InsertGame(gs, name, game) == Put(gs, name, game)

NoNameMsg == [msg |-> "Error! No name for current game", name |-> ""]

DuplicateMsg(name) == [msg |-> "Duplicate game found", name |-> name]

NoSubnameMsg(tag) == [msg |-> "No name found for", name |-> tag]

SkipsEntryOnlyWhenMissing(entry) == ~HasKey(entry.attrib, "name")

\* lines 118-119
SkipsEntry(entry) == Falsy(entry.attrib, "name")

entry == entries[ei + 1]

\* lines 99-114: the catalog is parsed; dats[platform] is the datinfo dict
\* itself, so what is put in datinfo shows in dats
ParseDat ==
    /\ ppc = "next"
    /\ di < NumDats
    /\ \E root \in Documents :
        LET info == ReadHeader(Put(Put(EmptyDict, "file", di + 1),
                                   "platform", di + 1),
                               root[1].children)
        IN  /\ di' = di + 1
            /\ xml' = root
            /\ datinfo' = info
            /\ dats' = Put(dats, di + 1, info)
            /\ entries' = FindEntries(root)
            /\ ei' = 0
            /\ atts' = <<>>
            /\ childs' = <<>>
            /\ games' = EmptyDict
            /\ ppc' = "entries"
    /\ UNCHANGED plog
    /\ UNCHANGED <<scanVars, checkVars>>

\* lines 115-121: an entry without a name is skipped
SkipEntry ==
    /\ ppc = "entries" /\ ei < Len(entries)
    /\ SkipsEntry(entry)
    /\ plog' = Append(plog, NoNameMsg)
    /\ ei' = ei + 1
    /\ UNCHANGED <<ppc, di, xml, entries, games, atts, childs, datinfo, dats>>
    /\ UNCHANGED <<scanVars, checkVars>>

\* lines 115-153: an entry is walked to its last child
WalkEntry ==
    /\ ppc = "entries" /\ ei < Len(entries)
    /\ ~SkipsEntry(entry)
    /\ LET name == AttrOf(entry.attrib, "name")
           walked == WalkEntryOf(entry, childs)
       IN  /\ walked.ok
           /\ plog' = IF name \in DOMAIN games
                      THEN Append(plog, DuplicateMsg(name)) ELSE plog
           /\ games' = InsertGame(games, name, walked.game)
           /\ atts' = NoteKeys(atts, entry.attrib)
           /\ childs' = walked.childs
    /\ ei' = ei + 1
    /\ UNCHANGED <<ppc, di, xml, entries, datinfo, dats>>
    /\ UNCHANGED <<scanVars, checkVars>>

\* lines 115-139: a part-like child has no name; exit() raises SystemExit,
\* which nothing in pulldata or main catches
WalkEntryExit ==
    /\ ppc = "entries" /\ ei < Len(entries)
    /\ ~SkipsEntry(entry)
    /\ LET name == AttrOf(entry.attrib, "name")
           walked == WalkEntryOf(entry, childs)
       IN  /\ ~walked.ok
           /\ plog' = Append(IF name \in DOMAIN games
                             THEN Append(plog, DuplicateMsg(name)) ELSE plog,
                             NoSubnameMsg(walked.childs[Len(walked.childs)]))
           /\ games' = InsertGame(games, name, walked.game)
           /\ atts' = NoteKeys(atts, entry.attrib)
           /\ childs' = walked.childs
    /\ ppc' = "exit"
    /\ UNCHANGED <<di, xml, entries, ei, datinfo, dats>>
    /\ UNCHANGED <<scanVars, checkVars>>

\* lines 154-156
FinishDat ==
    /\ ppc = "entries" /\ ei = Len(entries)
    /\ LET info == Put(Put(Put(datinfo, "games", games), "props", atts),
                       "types", childs)
       IN  /\ datinfo' = info
           /\ dats' = Put(dats, di, info)
    /\ ppc' = "next"
    /\ UNCHANGED <<di, xml, entries, ei, games, atts, childs, plog>>
    /\ UNCHANGED <<scanVars, checkVars>>

\* line 157
ReturnDats ==
    /\ ppc = "next"
    /\ di = NumDats
    /\ ppc' = "done"
    /\ UNCHANGED <<di, xml, entries, ei, games, atts, childs, datinfo, dats,
                   plog>>
    /\ UNCHANGED <<scanVars, checkVars>>

NextPull ==
    \/ ParseDat
    \/ SkipEntry
    \/ WalkEntry
    \/ WalkEntryExit
    \/ FinishDat
    \/ ReturnDats

SpecPull == Init /\ [][NextPull]_vars

------------------------------------------------------------------------------
(* checkroms *)

\* what the glob of an extracted tree may hold: regular files with what
\* getsize and the hashing collaborator return for them, and directories
TreeEntries ==
    {[name |-> "a.txt", isfile |-> TRUE, size |-> 3, crc |-> "crc-a",
      sha1 |-> "sha-a"],
     [name |-> "sub", isfile |-> FALSE, size |-> 0, crc |-> "", sha1 |-> ""],
     [name |-> "sub/b.bin", isfile |-> TRUE, size |-> 5, crc |-> "crc-b",
      sha1 |-> "sha-b"]}

Trees == UNION {[1..n -> TreeEntries] : n \in 0..MaxFiles}

BadRomZip(romname) == [msg |-> "Bad rom zip", path |-> romname]

RemoveTreeLeavesIt(existing, dir) == existing

\* line 26: shutil.rmtree(temp, ignore_errors=True)
RemoveTree(existing, dir) == existing \ {dir}

ChecksAfterErrorKeepsPartial(cs, romname, partial) == Put(cs, romname, partial)

\* lines 262-265: nothing is stored for an archive that raised
ChecksAfterError(cs, romname, partial) == cs

\* line 19: uuid.uuid4().hex, the n-th name drawn: a name not drawn before
Unique(n) == n

\* lines 239-244, 18-22: the next archive; its scratch directory is made
BeginRom ==
    /\ cpc = "next"
    /\ ci < NumRoms
    /\ ci' = ci + 1
    /\ romcheck' = [path |-> ci + 1, files |-> EmptyDict]
    /\ temp' = Unique(Len(made) + 1)
    /\ dirs' = dirs \cup {temp'}
    /\ made' = Append(made, [dir |-> temp', romname |-> ci + 1])
    /\ cpc' = "extract"
    /\ UNCHANGED <<files, fi, checks, raised, clog>>
    /\ UNCHANGED <<scanVars, pullVars>>

\* lines 31, 25-26, 262-265: extract_archive raises; the directory is
\* removed on the way out of tempdir, then the error is caught
ExtractRaises ==
    /\ cpc = "extract"
    /\ dirs' = RemoveTree(dirs, temp)
    /\ raised' = raised \cup {ci}
    /\ clog' = Append(clog, BadRomZip(ci))
    /\ checks' = ChecksAfterError(checks, ci, romcheck)
    /\ cpc' = "next"
    /\ UNCHANGED <<ci, temp, made, files, fi, romcheck>>
    /\ UNCHANGED <<scanVars, pullVars>>

\* lines 31-32, 245-246: the archive is extracted and its tree globbed
Extract ==
    /\ cpc = "extract"
    /\ \E tree \in Trees : files' = tree
    /\ fi' = 0
    /\ cpc' = "walk"
    /\ UNCHANGED <<ci, temp, dirs, made, romcheck, checks, raised, clog>>
    /\ UNCHANGED <<scanVars, pullVars>>

file == files[fi + 1]

\* lines 247-250: not a regular file
WalkDirectory ==
    /\ cpc = "walk" /\ fi < Len(files)
    /\ ~file.isfile
    /\ fi' = fi + 1
    /\ UNCHANGED <<cpc, ci, temp, dirs, made, files, romcheck, checks, raised,
                   clog>>
    /\ UNCHANGED <<scanVars, pullVars>>

\* lines 247-260: a regular file is measured and hashed
WalkFile ==
    /\ cpc = "walk" /\ fi < Len(files)
    /\ file.isfile
    /\ LET info == [size |-> file.size, name |-> file.name, crc |-> file.crc,
                    sha1 |-> file.sha1]
       IN  romcheck' = [romcheck EXCEPT !.files = Put(@, file.name, info)]
    /\ fi' = fi + 1
    /\ UNCHANGED <<cpc, ci, temp, dirs, made, files, checks, raised, clog>>
    /\ UNCHANGED <<scanVars, pullVars>>

\* lines 253-258, 25-26, 262-265: getsize or the hashing collaborator
\* raises; the directory is removed on the way out, then the error is caught
WalkFileRaises ==
    /\ cpc = "walk" /\ fi < Len(files)
    /\ file.isfile
    /\ dirs' = RemoveTree(dirs, temp)
    /\ raised' = raised \cup {ci}
    /\ clog' = Append(clog, BadRomZip(ci))
    /\ checks' = ChecksAfterError(checks, ci, romcheck)
    /\ cpc' = "next"
    /\ UNCHANGED <<ci, temp, made, files, fi, romcheck>>
    /\ UNCHANGED <<scanVars, pullVars>>

\* lines 247, 25-26, 261: the walk is over; the directory is removed on the
\* way out of the with block, then the report is stored
EndWalk ==
    /\ cpc = "walk" /\ fi = Len(files)
    /\ dirs' = RemoveTree(dirs, temp)
    /\ checks' = Put(checks, ci, romcheck)
    /\ cpc' = "next"
    /\ UNCHANGED <<ci, temp, made, files, fi, romcheck, raised, clog>>
    /\ UNCHANGED <<scanVars, pullVars>>

\* line 267
ReturnChecks ==
    /\ cpc = "next"
    /\ ci = NumRoms
    /\ cpc' = "done"
    /\ UNCHANGED <<ci, temp, dirs, made, files, fi, romcheck, checks, raised,
                   clog>>
    /\ UNCHANGED <<scanVars, pullVars>>

NextCheck ==
    \/ BeginRom
    \/ ExtractRaises
    \/ Extract
    \/ WalkDirectory
    \/ WalkFile
    \/ WalkFileRaises
    \/ EndWalk
    \/ ReturnChecks

SpecCheck == Init /\ [][NextCheck]_vars

------------------------------------------------------------------------------
(* scanroms: what the claims speak of *)

Range(f) == {f[x] : x \in DOMAIN f}

\* `lines` is the listing of archive ai (and not a stale one)
Listed == spc \in {"lines", "exit", "crash"} \/ ai \in DOMAIN romfiles

\* archive ai has been stored and no later archive has been started
Stored == spc \in {"next", "done"} /\ ai \in DOMAIN romfiles

\* a line of dash groups, as the listing tool prints under the header
OnlyDashes(tok) == \A i \in 1..Len(tok) : tok[i] = "-"

DashTokens(toks) == toks # <<>> /\ \A i \in 1..Len(toks) : OnlyDashes(toks[i])

DashLine(l) == DashTokens(Split(l))

TableDivider(l) == LET toks == Split(l) IN DashTokens(toks) /\ Len(toks) > 1

HasTableDivider(ls) == \E i \in 2..Len(ls) : TableDivider(ls[i])

\* the header line of a listing: the line above its first row of dash groups
HeaderIndex(ls) ==
    (CHOOSE i \in 2..Len(ls) :
        TableDivider(ls[i]) /\ \A j \in 2..(i - 1) : ~TableDivider(ls[j])) - 1

TokenSet(l) == Range(Split(l))

HeaderMismatched(ls) ==
    /\ HasTableDivider(ls)
    /\ \/ TokenSet(ls[HeaderIndex(ls)]) # Range(validheaders)
       \/ Len(Split(ls[HeaderIndex(ls)])) # Len(validheaders)

\* the table of a well-formed listing: HeaderLine, DividerLine, data rows,
\* DividerLine
HasTable(ls) ==
    /\ HasTableDivider(ls)
    /\ LET h == HeaderIndex(ls)
       IN  /\ ls[h] = HeaderLine
           /\ ls[h + 1] = DividerLine
           /\ \E e \in (h + 2)..Len(ls) : ls[e] = DividerLine

TableEnd(ls) ==
    LET h == HeaderIndex(ls)
    IN  CHOOSE e \in (h + 2)..Len(ls) :
            /\ ls[e] = DividerLine
            /\ \A j \in (h + 2)..(e - 1) : ls[j] # DividerLine

DataRows(ls) == (HeaderIndex(ls) + 2)..(TableEnd(ls) - 1)

\* where the Name column starts: under the word Name of the header line
NameColumnStart == Len(HeaderLine) - Len(Name)

NameColumn(l) == Slice(l, NameColumnStart, Len(l))

DistinctNames(ls) ==
    LET rows == DataRows(ls)
    IN  /\ \A i \in rows : Strip(NameColumn(ls[i])) # <<>>
        /\ \A i, j \in rows : i # j => NameColumn(ls[i]) # NameColumn(ls[j])

OneRecordPerRow(ls, fs) ==
    LET rows == DataRows(ls)
    IN  /\ DOMAIN fs = {NameColumn(ls[i]) : i \in rows}
        /\ Cardinality(DOMAIN fs) = Cardinality(rows)
        /\ \A n \in DOMAIN fs :
             Name \in DOMAIN fs[n] /\ fs[n][Name] = n

RaisedArchives == {m.path : m \in {x \in Range(slog) : x.msg = "Bad rom file"}}

------------------------------------------------------------------------------
(* C1 *)

\* C1 (as claimed): when the listing of an archive has a header line whose
\* tokens are not exactly the six names, scanroms does not stop (later
\* archives are scanned, the result is returned) and the archive is not
\* stored without a format-mismatch diagnostic.
C1_HeaderMismatchIsolated ==
    (Listed /\ HeaderMismatched(lines)) =>
        /\ spc # "exit"
        /\ ai \in DOMAIN romfiles => HeaderMismatch(ai) \in Range(slog)

------------------------------------------------------------------------------
(* C2 *)

TakenForDivider(l) == Dividers(Split(l))

------------------------------------------------------------------------------
(* C3 *)

\* C3 (as claimed): on a batch whose listings all carry the six-column
\* header and divider, no row makes scanroms fail, and the mapping returned
\* has exactly the archives whose listing did not raise.
C3_BatchKeysAreListedArchives ==
    /\ spc # "crash"
    /\ spc = "done" => DOMAIN romfiles = allfiles \ RaisedArchives

------------------------------------------------------------------------------
(* C9 *)

\* the offsets as the claim derives them, from the header tokens: the third
\* up to but excluding the last two
RECURSIVE ClaimedAccumulate(_, _)
ClaimedAccumulate(offs, toks) ==
    IF toks = <<>> THEN offs
    ELSE ClaimedAccumulate(
             Append(offs, offs[Len(offs)] + Len(Head(toks)) + 1), Tail(toks))

ClaimedOffsets(hs) ==
    LET acc == ClaimedAccumulate(<<0, 11, 20>>, SubSeq(hs, 3, Len(hs) - 2))
    IN  [acc EXCEPT ![Len(acc)] = acc[Len(acc)] + 1]

\* C9 (as claimed): once the headers are established, the offsets are
\* [0, 11, 20], then one per header token from the third up to but excluding
\* the last two, the last one incremented; one offset per header column.
C9_OffsetsFromHeaderTokens ==
    (spc = "lines" /\ started) =>
        /\ offsets = ClaimedOffsets(headers)
        /\ Len(offsets) = Len(headers)

\* the divider line that established the headers: the first line of more
\* than 4 tokens that all start with a dash
EstablishingLine ==
    CHOOSE d \in 1..li :
        /\ EstablishGuard(Split(lines[d]), <<>>)
        /\ \A j \in 1..(d - 1) : ~EstablishGuard(Split(lines[j]), <<>>)

\* C9 (amended): once the headers are established, the offsets are
\* [0, 11, 20], then one per dash group of the divider line, from its second
\* group up to but excluding its group at index len(headers) - 2 (that is,
\* its second, third and fourth groups), each the running offset plus the
\* length of the group plus 1, the last one incremented; there is one offset
\* per header column.
C9_OffsetsFromDividerGroups ==
    (spc = "lines" /\ started) =>
        LET g == Split(lines[EstablishingLine])
            o4 == 20 + Len(g[2]) + 1
            o5 == o4 + Len(g[3]) + 1
            o6 == o5 + Len(g[4]) + 1
        IN  /\ offsets = <<0, 11, 20, o4, o5, o6 + 1>>
            /\ Len(offsets) = Len(headers)

\* headers established by a divider whose groups are not as wide as the
\* words of the header
C9_Witness ==
    /\ spc = "lines" /\ started
    /\ offsets = <<0, 11, 20, 25, 36, 50>>

------------------------------------------------------------------------------
(* C10 *)

Seeking == spc = "lines" /\ ~started

\* the tokens of the most recent line among the first n that is not a line
\* of dash groups, <<>> when there is none
LastNonDivider(ls, n) ==
    LET nd == {i \in 1..n : ~DashLine(ls[i])}
    IN  IF nd = {} THEN <<>>
        ELSE Split(ls[CHOOSE i \in nd : \A j \in nd : j <= i])

\* C10 (as claimed): while seeking, `last` is the tokens of the most recent
\* non-divider line; a line read while seeking leads to Reading exactly when
\* it is a divider line and `last` has more than 4 tokens, and then the
\* headers are the tokens of `last`.
C10_LastIsLastNonDivider ==
    [][ /\ Seeking' => last' = LastNonDivider(lines', li')
        /\ (Seeking /\ li < Len(lines)) =>
             /\ started' <=> (DashLine(line) /\ Len(last) > 4)
             /\ started' => headers' = last ]_vars

\* C10 (amended): while seeking, `last` is the tokens of the most recent
\* line read, divider or not; a line read while seeking leads to Reading
\* exactly when it has more than 4 tokens, all starting with a dash, and
\* `last` holds the six valid header names, and then the headers are the
\* tokens of `last`.
C10_LastIsLastLine ==
    [][ /\ Seeking' => last' = IF li' = 0 THEN <<>> ELSE Split(lines'[li'])
        /\ (Seeking /\ li < Len(lines)) =>
             /\ started' <=> (/\ Len(parts) > 4 /\ Dividers(parts)
                              /\ HeadersValid(last))
             /\ started' => headers' = last ]_vars

\* the headers were established although a divider line ("--") was read
\* before the header line
C10_Witness ==
    /\ spc = "lines" /\ started /\ headers = validheaders
    /\ \E i \in 1..li : Split(lines[i]) = << <<"-", "-">> >>

------------------------------------------------------------------------------
(* checkroms: C4, C5 *)

\* C4: no report is ever stored for an archive on which extraction, the walk
\* or hashing raised, and the mapping checkroms returns, having gone through
\* the whole batch, has exactly the archives on which nothing raised.
C4_ChecksAreTheArchivesWithoutError ==
    /\ \A a \in raised : a \notin DOMAIN checks
    /\ cpc = "done" =>
         /\ ci = NumRoms
         /\ DOMAIN checks = (1..NumRoms) \ raised

\* checkroms returned after the first archive failed and a later one did not
C4_Witness ==
    /\ cpc = "done"
    /\ 1 \in raised
    /\ DOMAIN checks # {}

------------------------------------------------------------------------------
(* pulldata: C6, C7, C8 *)

\* the catalog of the current document has been completed
Ingested == ppc \in {"next", "done"} /\ di >= 1

Catalog == dats[di]["games"]

\* the non-empty names of the root's children of the given tags
NamesOf(root, tags) ==
    {AttrOf(root[i].attrib, "name") :
        i \in {j \in 1..Len(root) : /\ root[j].tag \in tags
                                    /\ ~Falsy(root[j].attrib, "name")}}

\* C6 (as claimed): in an ingested catalog every key of games is a non-empty
\* name and the keys are exactly the names of the document's game and
\* machine elements that carry one.
C6_KeysAreNamesOfGamesAndMachines ==
    Ingested =>
        /\ \A k \in DOMAIN Catalog : k # ""
        /\ DOMAIN Catalog = NamesOf(xml, {"game", "machine"})

\* C6 (amended): in an ingested catalog every key of games is a non-empty
\* name and the keys are exactly the names of the document's game elements
\* that carry one, or, when the document has no game element, of its machine
\* elements that carry one.
C6_KeysAreNamesOfEntries ==
    Ingested =>
        /\ \A k \in DOMAIN Catalog : k # ""
        /\ DOMAIN Catalog =
             IF \E i \in 1..Len(xml) : xml[i].tag = "game"
             THEN NamesOf(xml, {"game"})
             ELSE NamesOf(xml, {"machine"})

\* a catalog was ingested whose document has an entry with a name and an
\* entry without one
C6_Witness ==
    /\ Ingested
    /\ DOMAIN Catalog # {}
    /\ \E i \in 1..Len(entries) : Falsy(entries[i].attrib, "name")

\* the keys an entry puts in its game dict
KeysOf(e) ==
    {e.attrib[i][1] : i \in 1..Len(e.attrib)}
        \cup {IF InSeq(e.children[i].tag, nonmeta)
                  THEN e.children[i].tag \o "s"
              ELSE IF e.children[i].text = ""
                      /\ ~Falsy(e.children[i].attrib, "status")
                  THEN e.children[i].tag \o "status"
              ELSE e.children[i].tag : i \in 1..Len(e.children)}

\* the names of the children of e that have the given tag
PartNames(e, tag) ==
    {AttrOf(e.children[i].attrib, "name") :
        i \in {j \in 1..Len(e.children) : e.children[j].tag = tag}}

NameOfEntry(e) == AttrOf(e.attrib, "name")

Named(es) == {j \in 1..Len(es) : ~Falsy(es[j].attrib, "name")}

\* the game under `name` has what the last entry of that name in es has,
\* and nothing else
BuiltFromLast(game, name, es) ==
    LET occ == {j \in Named(es) : NameOfEntry(es[j]) = name}
        e == es[CHOOSE j \in occ : \A k \in occ : k <= j]
    IN  /\ DOMAIN game = KeysOf(e)
        /\ \A i \in 1..Len(e.attrib) :
             game[e.attrib[i][1]] = Str(e.attrib[i][2])
        /\ \A i \in 1..Len(nonmeta) :
             (nonmeta[i] \o "s") \in DOMAIN game =>
                 DOMAIN game[nonmeta[i] \o "s"].items = PartNames(e, nonmeta[i])

\* C7: an entry whose name an earlier entry of the document has is reported
\* as a duplicate when it is walked, and no other entry is; in the completed
\* catalog the game under each name is the one built from the last entry of
\* that name, with no attribute or child of an earlier one.
C7_LastOccurrenceWins ==
    [][ /\ (ppc = "entries" /\ ei' = ei + 1 /\ ~Falsy(entry.attrib, "name")) =>
             plog' = IF \E j \in Named(entries) :
                           j <= ei /\ NameOfEntry(entries[j]) = NameOfEntry(entry)
                     THEN Append(plog, DuplicateMsg(NameOfEntry(entry)))
                     ELSE plog
        /\ (ppc = "entries" /\ ppc' = "next") =>
             \A name \in DOMAIN dats'[di]["games"] :
                 BuiltFromLast(dats'[di]["games"][name], name, entries) ]_vars

\* a catalog with two entries called Foo was ingested
C7_Witness ==
    /\ Ingested
    /\ DuplicateMsg("Foo") \in Range(plog)
    /\ Cardinality({j \in Named(entries) : NameOfEntry(entries[j]) = "Foo"}) > 1
    /\ "Foo" \in DOMAIN Catalog

\* C8 (as claimed): in an ingested catalog every item of the collection of a
\* part-like tag is stored under its own name and its type is that tag.
C8_ItemKeyedByNameTypedByTag ==
    Ingested =>
        \A g \in DOMAIN Catalog : \A i \in 1..Len(nonmeta) :
            (nonmeta[i] \o "s") \in DOMAIN Catalog[g] =>
                LET items == Catalog[g][nonmeta[i] \o "s"].items
                IN  \A k \in DOMAIN items :
                        /\ items[k]["name"] = k
                        /\ items[k]["type"] = nonmeta[i]

====
